---- MODULE Spec2Model ----
(***************************************************************************)
(* Hash tables of the library digitalization system: HashTable with the    *)
(* Chain, Linear and Double collision strategies (hash_table.py), the      *)
(* growing DynamicHashSet / DynamicHashMap (dynamic_hashtable.py) and the  *)
(* global list of table sizes (prime_generator.py).                        *)
(*                                                                         *)
(* A key is a sequence of character codes.  A stored element is a record   *)
(* [tuple, key, val]: tuple = FALSE is a bare key (a str, val unused),     *)
(* tuple = TRUE is the pair (key, val).  A slot of the table is a sequence *)
(* of elements: the list of a Chain slot, and for Linear / Double either   *)
(* None (the empty sequence) or the single element held by the slot.       *)
(***************************************************************************)
EXTENDS Integers, Sequences, FiniteSets, TLC

\* ---------------------------------------------------------------- bounds
MaxSize == 2
MaxPrimes == 2
MaxPrime == 3
MaxCount == 3
MaxKeyLen == 2
MaxMultiplier == 3
MaxStepBound == 3
MaxHashSize == 4
MaxNestedSize == 3
MaxNestedPrime == 5

\* ------------------------------------------------------------- constants
ord_a == 97
ord_A == 65
\* ord('z') and ord('1')
ord_z == ord_a + 25
ord_1 == ord_A - 16
DefaultPrime == 29

\* The keys the calls are made with: "", "b", "A", "bA".
Keys == {<<>>, <<ord_a + 1>>, <<ord_A>>, <<ord_a + 1, ord_A>>}
\* The values stored with a key: one that is false in Python and one that
\* is true.
Vals == {0, 1}
\* Keys with a character that is not a letter: "b", "1", "b1".
AnyKeys == {<<ord_a + 1>>, <<ord_1>>, <<ord_a + 1, ord_1>>}
\* The multipliers z and z2, the bounds c2 and the sizes tables are made with.
Multipliers == {2}
SecondMultipliers == {3}
StepBounds == 1..MaxSize
Sizes == 1..MaxSize
Classes == {"HashSet", "HashMap", "DynamicHashSet", "DynamicHashMap"}
Strategies == {"Chain", "Linear", "Double"}

\* The keys, multipliers, step bounds and sizes the hash functions are
\* computed for: keys of the letters "a", "z", "A".
HashChars == {ord_a, ord_z, ord_A}
HashKeys == UNION {[1..n -> HashChars] : n \in 0..MaxKeyLen}
HashMultipliers == 0..MaxMultiplier
HashStepBounds == 1..MaxStepBound
HashSizes == 1..MaxHashSize

IsMap(c) == c \in {"HashMap", "DynamicHashMap"}
IsDynamic(c) == c \in {"DynamicHashSet", "DynamicHashMap"}

\* Lists a caller may hand to set_primes: sizes in descending order.
RECURSIVE IsDescending(_)
IsDescending(s) ==
    IF Len(s) <= 1 THEN TRUE
    ELSE s[1] > s[2] /\ IsDescending(Tail(s))

IsPrime(n) == n >= 2 /\ \A d \in 2..(n - 1) : n % d # 0

Primes == {n \in 2..MaxPrime : IsPrime(n)}

PrimeLists == {s \in UNION {[1..n -> Primes] : n \in 0..MaxPrimes} : IsDescending(s)}

\* The sizes and the size lists of the tables whose rehash is followed
\* through several sizes.
NestedSizes == 1..MaxNestedSize
NestedPrimes == {n \in 2..MaxNestedPrime : IsPrime(n)}
NestedPrimeLists ==
    {s \in UNION {[1..n -> NestedPrimes] : n \in 0..Cardinality(NestedPrimes)} :
        IsDescending(s)}

\* ------------------------------------------------------- python values
None == <<>>
Bare(k) == [tuple |-> FALSE, key |-> k, val |-> 0]
Pair(k, v) == [tuple |-> TRUE, key |-> k, val |-> v]

\* What a call returns: True / False, None, a stored value, or the float
\* v / d of get_load.
RetTrue == [kind |-> "bool", b |-> TRUE, v |-> 0, d |-> 1]
RetFalse == [kind |-> "bool", b |-> FALSE, v |-> 0, d |-> 1]
RetNone == [kind |-> "None", b |-> FALSE, v |-> 0, d |-> 1]
RetVal(v) == [kind |-> "value", b |-> FALSE, v |-> v, d |-> 1]
RetFloat(n, d) == [kind |-> "float", b |-> FALSE, v |-> n, d |-> d]

\* Python truth value of what find returns: a bool, None, or a stored value
\* (an int, false when 0).
Truthy(r) ==
    CASE r.kind = "bool" -> r.b
      [] r.kind = "value" -> r.v # 0
      [] OTHER -> FALSE

\* Python truth value of a slot of a Linear / Double table: None is false, a
\* str is false when empty, a (non-empty) tuple is true.
SlotTruthy(slot) ==
    /\ slot # None
    /\ (slot[1].tuple \/ slot[1].key # <<>>)

\* (isinstance(item, tuple) and item[0] == key) or item == key
Matches(item, key) ==
    \/ (item.tuple /\ item.key = key)
    \/ (~item.tuple /\ item.key = key)

\* item[1] if isinstance(item, tuple) else True
ItemResult(item) == IF item.tuple THEN RetVal(item.val) ELSE RetTrue

\* None if isinstance(self, HashMap) else False
MissResult(c) == IF IsMap(c) THEN RetNone ELSE RetFalse

\* ------------------------------------------------------------- hashing
\* char.islower() for an ASCII character
islower(char) == ord_a <= char /\ char <= ord_z

CharValue(char) ==
    IF islower(char) THEN char - ord_a ELSE char - ord_A + 26

\* PolyLoop going over the key from its first character to its last.
RECURSIVE PolyLoopAscending(_, _, _, _, _)
PolyLoopAscending(key, i, poly, zz, size) ==
    IF i = 0 THEN poly
    ELSE PolyLoopAscending(key, i - 1,
             (poly * zz + CharValue(key[Len(key) + 1 - i])) % size, zz, size)

\* poly = (poly * z + value) % table_size, for i = len(key)-1 down to 0
RECURSIVE PolyLoop(_, _, _, _, _)
PolyLoop(key, i, poly, zz, size) ==
    IF i = 0 THEN poly
    ELSE PolyLoop(key, i - 1, (poly * zz + CharValue(key[i])) % size, zz, size)

get_slot(m, key) == PolyLoop(key, Len(key), 0, m.z, m.table_size) % m.table_size

\* The step of find for Double: step = (step * z2 + value), for
\* i = len(key)-1 down to 0, no reduction; then step = c2 - (step % c2).
RECURSIVE StepLoop(_, _, _, _)
StepLoop(key, i, step, zz2) ==
    IF i = 0 THEN step
    ELSE StepLoop(key, i - 1, step * zz2 + CharValue(key[i]), zz2)

double_step(m, key) == m.c2 - (StepLoop(key, Len(key), 0, m.z2) % m.c2)

\* The step of insert for Double, computed by insert's own copy of the loop.
RECURSIVE InsertStepLoop(_, _, _, _)
InsertStepLoop(key, i, step, zz2) ==
    IF i = 0 THEN step
    ELSE InsertStepLoop(key, i - 1, (step * zz2 + CharValue(key[i])), zz2)

\* insert_step without the subtraction from c2: the step A % c2.
insert_stepMod(m, key) ==
    InsertStepLoop(key, Len(key), 0, m.z2) % m.c2

\* insert_step accumulating with the multiplier z of get_slot.
insert_stepZ(m, key) ==
    m.c2 - (InsertStepLoop(key, Len(key), 0, m.z) % m.c2)

insert_step(m, key) ==
    m.c2 - (InsertStepLoop(key, Len(key), 0, m.z2) % m.c2)

\* ------------------------------------------------------ the table object
\* The machine a call runs on: the attributes HashTable.__init__ assigns
\* (z2 and c2 are 0 for the strategies that never assign them), the class of
\* the object, the global prime_sizes, the exception in flight (exc), and the
\* record of what the call did: every probing loop run (loops) and every
\* rehash that took a size (rebuilds).
Machine(c, ct, zz, zz2, cc2, size, count, tbl, primes) ==
    [cls |-> c, collision_type |-> ct, z |-> zz, z2 |-> zz2, c2 |-> cc2,
     table_size |-> size, total_elements |-> count, table |-> tbl,
     prime_sizes |-> primes, exc |-> "ok", loops |-> <<>>, rebuilds |-> <<>>]

Raise(m, e) == [m EXCEPT !.exc = e]

EmptyTable(size) == [i \in 1..size |-> <<>>]

\* HashTable.__init__(self, collision_type, params); params is the tuple the
\* caller passes.  The right-hand side of the Double assignment is evaluated
\* before anything is bound, so a short tuple raises with only
\* collision_type and total_elements already assigned.
HashTable__init__(m, ct, params) ==
    LET m1 == [m EXCEPT !.collision_type = ct, !.total_elements = 0]
    IN  IF ct = "Double"
        THEN IF Len(params) < 4
             THEN Raise(m1, "IndexError: tuple index out of range")
             ELSE [m1 EXCEPT !.z = params[1], !.z2 = params[2], !.c2 = params[3],
                             !.table_size = params[4],
                             !.table = EmptyTable(params[4])]
        ELSE [m1 EXCEPT !.z = params[1], !.table_size = params[2],
                        !.table = EmptyTable(params[2])]

\* for item in self.table[idx]: ... (Chain)
RECURSIVE ChainScan(_, _, _, _)
ChainScan(c, lst, key, i) ==
    IF i > Len(lst) THEN MissResult(c)
    ELSE IF Matches(lst[i], key) THEN ItemResult(lst[i])
    ELSE ChainScan(c, lst, key, i + 1)

\* while self.table[idx]: ... idx = (idx + step) % table_size;
\* if orig_idx == idx: break   (Linear with step 1, Double with its step).
\* n counts the slots examined so far; the result tells the step used.
RECURSIVE FindProbe(_, _, _, _, _, _)
FindProbe(m, key, step, idx, orig_idx, n) ==
    LET slot == m.table[idx + 1]
        nxt == (idx + step) % m.table_size
    IN  IF ~SlotTruthy(slot)
        THEN [ret |-> MissResult(m.cls), probes |-> n + 1, step |-> step]
        ELSE IF Matches(slot[1], key)
             THEN [ret |-> ItemResult(slot[1]), probes |-> n + 1, step |-> step]
        ELSE IF nxt = orig_idx
             THEN [ret |-> MissResult(m.cls), probes |-> n + 1, step |-> step]
        ELSE FindProbe(m, key, step, nxt, orig_idx, n + 1)

\* step is the step the probing loop advanced by (0 for Chain, which has no
\* such loop).
HashTable_find(m, key) ==
    LET idx == get_slot(m, key)
        step == IF m.collision_type = "Linear" THEN 1 ELSE double_step(m, key)
    IN  IF m.collision_type = "Chain"
        THEN [ret |-> ChainScan(m.cls, m.table[idx + 1], key, 1), probes |-> 0,
              step |-> 0]
        ELSE FindProbe(m, key, step, idx, idx, 0)

\* InsertProbe without the return on coming back to orig_idx: the element
\* is then written over the slot the probing started from.
RECURSIVE InsertProbeNoReturn(_, _, _, _, _)
InsertProbeNoReturn(m, step, idx, orig_idx, n) ==
    LET nxt == (idx + step) % m.table_size
    IN  IF m.table[idx + 1] = None THEN [free |-> TRUE, idx |-> idx, probes |-> n + 1]
        ELSE IF nxt = orig_idx THEN [free |-> TRUE, idx |-> nxt, probes |-> n + 1]
        ELSE InsertProbeNoReturn(m, step, nxt, orig_idx, n + 1)

\* InsertProbe with the test for orig_idx made at the top of the loop, after
\* the slot has been examined once more.
RECURSIVE InsertProbeLateTest(_, _, _, _, _)
InsertProbeLateTest(m, step, idx, orig_idx, n) ==
    LET nxt == (idx + step) % m.table_size
    IN  IF m.table[idx + 1] = None THEN [free |-> TRUE, idx |-> idx, probes |-> n + 1]
        ELSE IF idx = orig_idx /\ n > 0
             THEN [free |-> FALSE, idx |-> idx, probes |-> n + 1]
        ELSE InsertProbeLateTest(m, step, nxt, orig_idx, n + 1)

\* while self.table[idx] is not None: idx = (idx + step) % table_size;
\* if idx == orig_idx: return
RECURSIVE InsertProbe(_, _, _, _, _)
InsertProbe(m, step, idx, orig_idx, n) ==
    LET nxt == (idx + step) % m.table_size
    IN  IF m.table[idx + 1] = None THEN [free |-> TRUE, idx |-> idx, probes |-> n + 1]
        ELSE IF nxt = orig_idx THEN [free |-> FALSE, idx |-> idx, probes |-> n + 1]
        ELSE InsertProbe(m, step, nxt, orig_idx, n + 1)

LogLoop(m, name, n, step) ==
    IF m.collision_type = "Chain" THEN m
    ELSE [m EXCEPT !.loops = Append(@, [loop |-> name, probes |-> n,
                                        size |-> m.table_size,
                                        step |-> step])]

\* self.table[idx].append(x) for Chain, self.table[idx] = x otherwise; then
\* self.total_elements += 1
Store(m, idx, x) ==
    [m EXCEPT !.table[idx + 1] = IF m.collision_type = "Chain"
                                 THEN Append(@, x) ELSE <<x>>,
              !.total_elements = @ + 1]

\* HashTable.insert with `break` in place of the `return` of the probing
\* loops: coming back to orig_idx, the element is written there and counted.
HashTable_insertBreak(m, x) ==
    LET key == x.key
        f == HashTable_find(m, key)
        m1 == LogLoop(m, "find", f.probes, f.step)
        idx == get_slot(m, key)
        step == IF m.collision_type = "Linear" THEN 1 ELSE insert_step(m, key)
        p == InsertProbe(m, step, idx, idx, 0)
    IN  IF Truthy(f.ret) THEN m1
        ELSE IF m.collision_type = "Chain" THEN Store(m1, idx, x)
        ELSE IF p.free
             THEN Store(LogLoop(m1, "insert", p.probes, step), p.idx, x)
        ELSE Store(LogLoop(m1, "insert", p.probes, step), idx, x)

\* HashTable.insert growing the table by one slot when the probing finds no
\* vacant slot.
HashTable_insertGrow(m, x) ==
    LET key == x.key
        f == HashTable_find(m, key)
        m1 == LogLoop(m, "find", f.probes, f.step)
        idx == get_slot(m, key)
        step == IF m.collision_type = "Linear" THEN 1 ELSE insert_step(m, key)
        p == InsertProbe(m, step, idx, idx, 0)
        m2 == LogLoop(m1, "insert", p.probes, step)
    IN  IF Truthy(f.ret) THEN m1
        ELSE IF m.collision_type = "Chain" THEN Store(m1, idx, x)
        ELSE IF p.free THEN Store(m2, p.idx, x)
        ELSE [m2 EXCEPT !.table = Append(@, <<x>>),
                        !.table_size = @ + 1,
                        !.total_elements = @ + 1]

HashTable_insert(m, x) ==
    LET key == x.key
        f == HashTable_find(m, key)
        m1 == LogLoop(m, "find", f.probes, f.step)
        idx == get_slot(m, key)
        step == IF m.collision_type = "Linear" THEN 1 ELSE insert_step(m, key)
        p == InsertProbe(m, step, idx, idx, 0)
    IN  IF Truthy(f.ret) THEN m1
        ELSE IF m.collision_type = "Chain" THEN Store(m1, idx, x)
        ELSE IF p.free
             THEN Store(LogLoop(m1, "insert", p.probes, step), p.idx, x)
        ELSE LogLoop(m1, "insert", p.probes, step)

\* The elements of the table in slot order, and in list order within a Chain
\* slot: what the rehash methods collect before they rebuild.
RECURSIVE Collect(_, _)
Collect(tbl, i) ==
    IF i > Len(tbl) THEN <<>> ELSE tbl[i] \o Collect(tbl, i + 1)

\* The number of elements the table holds, Len(Collect(tbl, 1)).
RECURSIVE Held(_, _)
Held(tbl, i) ==
    IF i > Len(tbl) THEN 0 ELSE Len(tbl[i]) + Held(tbl, i + 1)

\* prime_sizes.pop()
get_next_size(m) ==
    IF m.prime_sizes = <<>>
    THEN Raise(m, "IndexError: pop from empty list")
    ELSE [m EXCEPT !.prime_sizes = SubSeq(@, 1, Len(@) - 1)]

\* The record of a rehash: opened when the rehash has taken its size, closed
\* when it ends (built is the table size right after the table was rebuilt,
\* 0 if it never was; done tells whether the rehash ran to its end).
OpenRebuild(m, took, before) ==
    [m EXCEPT !.rebuilds = Append(@, [took |-> took, before |-> before,
                                      built |-> 0, after |-> <<>>,
                                      done |-> FALSE])]

CloseRebuild(m, i, built) ==
    [m EXCEPT !.rebuilds[i].built = built,
              !.rebuilds[i].after = Collect(m.table, 1),
              !.rebuilds[i].done = (m.exc = "ok")]

RECURSIVE Self_insert(_, _)
RECURSIVE Self_rehash(_)
RECURSIVE ReinsertAll(_, _, _)

\* for element in current_elements: self.insert(element)
ReinsertAll(m, elems, i) ==
    IF m.exc # "ok" \/ i > Len(elems) THEN m
    ELSE ReinsertAll(Self_insert(m, elems[i]), elems, i + 1)

HashTable_rehash(m) ==
    LET g == get_next_size(m)
        new_size == m.prime_sizes[Len(m.prime_sizes)]
        old_table == m.table
        o == OpenRebuild(g, new_size, Collect(old_table, 1))
        m1 == [o EXCEPT !.table_size = new_size, !.total_elements = 0,
                        !.table = EmptyTable(new_size)]
    IN  IF g.exc # "ok" THEN g
        ELSE CloseRebuild(ReinsertAll(m1, Collect(old_table, 1), 1),
                          Len(o.rebuilds), m1.table_size)

\* DynamicHashSet.rehash with the two params of __init__ swapped.
DynamicHashSet_rehashSwapped(m) ==
    LET g == get_next_size(m)
        new_size == m.prime_sizes[Len(m.prime_sizes)]
        current_elements == Collect(m.table, 1)
        o == OpenRebuild(g, new_size, current_elements)
        m1 == HashTable__init__(o, o.collision_type, <<new_size, o.z>>)
    IN  IF g.exc # "ok" THEN g
        ELSE IF m1.exc # "ok" THEN CloseRebuild(m1, Len(o.rebuilds), 0)
        ELSE CloseRebuild(ReinsertAll(m1, current_elements, 1),
                          Len(o.rebuilds), m1.table_size)

\* DynamicHashSet.rehash returning quietly when the size list is empty.
DynamicHashSet_rehashQuiet(m) ==
    LET g == get_next_size(m)
        new_size == m.prime_sizes[Len(m.prime_sizes)]
        current_elements == Collect(m.table, 1)
        o == OpenRebuild(g, new_size, current_elements)
        m1 == HashTable__init__(o, o.collision_type, <<o.z, new_size>>)
    IN  IF g.exc # "ok" THEN m
        ELSE IF m1.exc # "ok" THEN CloseRebuild(m1, Len(o.rebuilds), 0)
        ELSE CloseRebuild(ReinsertAll(m1, current_elements, 1),
                          Len(o.rebuilds), m1.table_size)

DynamicHashSet_rehash(m) ==
    LET g == get_next_size(m)
        new_size == m.prime_sizes[Len(m.prime_sizes)]
        current_elements == Collect(m.table, 1)
        o == OpenRebuild(g, new_size, current_elements)
        m1 == HashTable__init__(o, o.collision_type, <<o.z, new_size>>)
    IN  IF g.exc # "ok" THEN g
        ELSE IF m1.exc # "ok" THEN CloseRebuild(m1, Len(o.rebuilds), 0)
        ELSE CloseRebuild(ReinsertAll(m1, current_elements, 1),
                          Len(o.rebuilds), m1.table_size)

\* self.params is read before __init__ is called; no method of the class or
\* of its bases assigns it.
DynamicHashMap_rehash(m) ==
    LET g == get_next_size(m)
        new_size == m.prime_sizes[Len(m.prime_sizes)]
        current_elements == Collect(m.table, 1)
        o == OpenRebuild(g, new_size, current_elements)
        m1 == HashTable__init__(o, o.collision_type,
                                SubSeq(o.params, 1, 2) \o <<new_size>>)
    IN  IF g.exc # "ok" THEN g
        ELSE IF "params" \notin DOMAIN o
        THEN CloseRebuild(Raise(o, "AttributeError: params"),
                          Len(o.rebuilds), 0)
        ELSE IF m1.exc # "ok" THEN CloseRebuild(m1, Len(o.rebuilds), 0)
        ELSE CloseRebuild(ReinsertAll(m1, current_elements, 1),
                          Len(o.rebuilds), m1.table_size)

\* self.total_elements / self.table_size, kept as the exact ratio
get_load(m) == RetFloat(m.total_elements, m.table_size)

\* r >= 0.5 for a float r = v / d
GeHalf(r) == 2 * r.v >= r.d

\* super().insert(x); if self.get_load() >= 0.5: self.rehash()
DynamicHashSet_insert(m, x) ==
    LET m1 == HashTable_insert(m, x)
    IN  IF GeHalf(get_load(m1)) THEN Self_rehash(m1) ELSE m1

DynamicHashMap_insert(m, key) ==
    LET m1 == HashTable_insert(m, key)
    IN  IF GeHalf(get_load(m1)) THEN Self_rehash(m1) ELSE m1

\* Method resolution by the class of the object.
Self_rehash(m) ==
    IF m.cls = "DynamicHashSet" THEN DynamicHashSet_rehash(m)
    ELSE IF m.cls = "DynamicHashMap" THEN DynamicHashMap_rehash(m)
    ELSE HashTable_rehash(m)

Self_insert(m, x) ==
    IF m.cls = "DynamicHashSet" THEN DynamicHashSet_insert(m, x)
    ELSE IF m.cls = "DynamicHashMap" THEN DynamicHashMap_insert(m, x)
    ELSE HashTable_insert(m, x)

\* ------------------------------------------------------------ the state
VARIABLES
    cls,             \* class of the table object
    collision_type, z, z2, c2, table_size, total_elements, table,
    prime_sizes,     \* prime_generator.prime_sizes
    call,            \* the last call made: [name, key, val]
    exc,             \* how it ended: "ok" or the exception it raised
    ret,             \* what it returned
    loops,           \* the probing loops it ran
    rebuilds,        \* the rehashes it ran that took a size
    mid              \* insert: whether HashTable.insert stored the element,
                     \* and the load it left, before any rehash

vars == <<cls, collision_type, z, z2, c2, table_size, total_elements, table,
          prime_sizes, call, exc, ret, loops, rebuilds, mid>>

Self == Machine(cls, collision_type, z, z2, c2, table_size, total_elements,
                table, prime_sizes)

\* The attributes and the global list after a call that ended in machine m.
Becomes(m) ==
    /\ collision_type' = m.collision_type
    /\ z' = m.z
    /\ z2' = m.z2
    /\ c2' = m.c2
    /\ table_size' = m.table_size
    /\ total_elements' = m.total_elements
    /\ table' = m.table
    /\ prime_sizes' = m.prime_sizes
    /\ exc' = m.exc
    /\ loops' = m.loops
    /\ rebuilds' = m.rebuilds
    /\ UNCHANGED cls

NoCall == [name |-> "init", key |-> <<>>, val |-> 0]
NoMid == [stored |-> FALSE, load |-> RetFloat(0, 1)]

\* The params a table is constructed with: (z, size), and (z, z2, c2, size)
\* for Double.
ParamsOver(ct, zs, z2s, c2s, sizes) ==
    IF ct = "Double"
    THEN zs \X z2s \X c2s \X sizes
    ELSE zs \X sizes

Params(ct) == ParamsOver(ct, Multipliers, SecondMultipliers, StepBounds, Sizes)

HashParams(ct) ==
    ParamsOver(ct, HashMultipliers, SecondMultipliers, StepBounds, HashSizes)

\* A table of one of the classes, constructed with one of the strategies and
\* one of the params tuples ParamsOf gives for the strategy.
InitWith(classes, strategies, ParamsOf) ==
    /\ cls \in classes
    /\ \E ct \in strategies : \E params \in ParamsOf[ct] :
         LET m == HashTable__init__(
                     Machine(cls, ct, 0, 0, 0, 0, 0, <<>>, <<DefaultPrime>>),
                     ct, params)
         IN  /\ collision_type = m.collision_type
             /\ z = m.z
             /\ z2 = m.z2
             /\ c2 = m.c2
             /\ table_size = m.table_size
             /\ total_elements = m.total_elements
             /\ table = m.table
             /\ prime_sizes = m.prime_sizes
    /\ call = NoCall
    /\ exc = "ok"
    /\ ret = RetNone
    /\ loops = <<>>
    /\ rebuilds = <<>>
    /\ mid = NoMid

StepParams(ct) ==
    ParamsOver(ct, Multipliers, HashMultipliers, HashStepBounds, {MaxSize})

NestedParams(ct) ==
    ParamsOver(ct, Multipliers, SecondMultipliers, StepBounds, NestedSizes)

InitFor(classes, strategies) ==
    InitWith(classes, strategies,
             [ct \in Strategies |-> Params(ct)])

Init == InitFor(Classes, Strategies)

\* The element a caller passes to insert: a key for a set, a pair for a map.
Element(k, v) == IF IsMap(cls) THEN Pair(k, v) ELSE Bare(k)

\* table.insert(x)
Insert(k, v) ==
    /\ v \in (IF IsMap(cls) THEN Vals ELSE {0})
    /\ Held(table, 1) < MaxCount
    /\ call' = [name |-> "insert", key |-> k, val |-> v]
    /\ Becomes(Self_insert(Self, Element(k, v)))
    /\ LET m1 == HashTable_insert(Self, Element(k, v))
           stored == m1.total_elements = total_elements + 1
       IN  mid' = [stored |-> stored, load |-> get_load(m1)]
    /\ ret' = RetNone

\* table.find(key)
Find(k) ==
    /\ call' = [name |-> "find", key |-> k, val |-> 0]
    /\ LET f == HashTable_find(Self, k)
       IN  /\ ret' = f.ret
           /\ loops' = LogLoop(Self, "find", f.probes, f.step).loops
    /\ exc' = "ok"
    /\ rebuilds' = <<>>
    /\ UNCHANGED <<cls, collision_type, z, z2, c2, table_size, total_elements,
                   table, prime_sizes, mid>>

\* table.get_slot(key)
GetSlot(k) ==
    /\ call' = [name |-> "get_slot", key |-> k, val |-> 0]
    /\ ret' = RetVal(get_slot(Self, k))
    /\ exc' = "ok"
    /\ loops' = <<>>
    /\ rebuilds' = <<>>
    /\ UNCHANGED <<cls, collision_type, z, z2, c2, table_size, total_elements,
                   table, prime_sizes, mid>>

\* table.get_load()
GetLoad ==
    /\ call' = [name |-> "get_load", key |-> <<>>, val |-> 0]
    /\ ret' = get_load(Self)
    /\ exc' = "ok"
    /\ loops' = <<>>
    /\ rebuilds' = <<>>
    /\ UNCHANGED <<cls, collision_type, z, z2, c2, table_size, total_elements,
                   table, prime_sizes, mid>>

\* prime_generator.set_primes(list_of_primes), called to seed the sizes
\* before the table is used.
set_primes(list_of_primes) ==
    /\ call.name = "init"
    /\ call' = [name |-> "set_primes", key |-> <<>>, val |-> 0]
    /\ prime_sizes' = list_of_primes
    /\ ret' = RetNone
    /\ exc' = "ok"
    /\ loops' = <<>>
    /\ rebuilds' = <<>>
    /\ UNCHANGED <<cls, collision_type, z, z2, c2, table_size, total_elements,
                   table, mid>>

\* table.rehash() called on a HashSet or HashMap
Rehash ==
    /\ ~IsDynamic(cls)
    /\ call' = [name |-> "rehash", key |-> <<>>, val |-> 0]
    /\ Becomes(HashTable_rehash(Self))
    /\ ret' = RetNone
    /\ UNCHANGED mid

Next ==
    \/ \E k \in Keys, v \in Vals : Insert(k, v)
    \/ \E k \in Keys : Find(k)
    \/ GetLoad
    \/ \E l \in PrimeLists : set_primes(l)
    \/ Rehash

Spec == Init /\ [][Next]_vars

\* The Linear and Double tables of every class.
InitProbing == InitFor(Classes, {"Linear", "Double"})
SpecProbing == InitProbing /\ [][Next]_vars

\* The Double tables of every class.
InitDouble == InitFor(Classes, {"Double"})
SpecDouble == InitDouble /\ [][Next]_vars

\* The HashSet and HashMap tables with Linear or Double strategy.
InitStaticProbing == InitFor({"HashSet", "HashMap"}, {"Linear", "Double"})
SpecStaticProbing == InitStaticProbing /\ [][Next]_vars

\* The DynamicHashSet and DynamicHashMap tables; rehash is called by insert
\* only.
InitDynamic == InitFor({"DynamicHashSet", "DynamicHashMap"}, Strategies)
NextDynamic ==
    \/ \E k \in Keys, v \in Vals : Insert(k, v)
    \/ \E k \in Keys : Find(k)
    \/ GetLoad
    \/ \E l \in PrimeLists : set_primes(l)
SpecDynamic == InitDynamic /\ [][NextDynamic]_vars

\* The hash functions: get_slot and find called on newly constructed HashSet
\* and HashMap tables of many multipliers and sizes, with many keys.
InitHash ==
    InitWith({"HashSet", "HashMap"}, Strategies,
             [ct \in Strategies |-> HashParams(ct)])
NextHash ==
    \/ \E k \in HashKeys : GetSlot(k)
    \/ \E k \in HashKeys : Find(k)
SpecHash == InitHash /\ [][NextHash]_vars

\* table.insert(x) on a table that holds nothing yet
InsertFirst(k, v) ==
    /\ Held(table, 1) = 0
    /\ Insert(k, v)

\* The step of Double: insert and find called on HashSet tables of many
\* second multipliers and step bounds, with many keys.
InitStep ==
    InitWith({"HashSet"}, {"Double"},
             [ct \in Strategies |-> StepParams(ct)])
NextStep ==
    \/ \E k \in HashKeys, v \in Vals : InsertFirst(k, v)
    \/ \E k \in HashKeys : Find(k)
SpecStep == InitStep /\ [][NextStep]_vars

\* The DynamicHashSet tables with Chain or Linear strategy, with sizes and
\* size lists that let a rehash take several sizes in a row.
InitNested ==
    InitWith({"DynamicHashSet"}, {"Chain", "Linear"},
             [ct \in Strategies |-> NestedParams(ct)])
NextNested ==
    \/ \E k \in Keys, v \in Vals : Insert(k, v)
    \/ \E k \in Keys : Find(k)
    \/ GetLoad
    \/ \E l \in NestedPrimeLists : set_primes(l)
SpecNested == InitNested /\ [][NextNested]_vars

\* The HashSet and HashMap tables of every strategy, constructed with sizes
\* that a size taken by rehash may be smaller than.
InitStatic ==
    InitWith({"HashSet", "HashMap"}, Strategies,
             [ct \in Strategies |-> NestedParams(ct)])
SpecStatic == InitStatic /\ [][Next]_vars

\* The tables of every class and strategy, with every map element inserted
\* with the value 0.
NextFrame ==
    \/ \E k \in Keys : Insert(k, 0)
    \/ \E k \in Keys : Find(k)
    \/ GetLoad
    \/ \E l \in PrimeLists : set_primes(l)
    \/ Rehash
SpecFrame == Init /\ [][NextFrame]_vars

\* The tables of every class and strategy, called with keys that may hold a
\* character that is not a letter.
NextAnyKey ==
    \/ \E k \in AnyKeys, v \in Vals : Insert(k, v)
    \/ \E k \in AnyKeys : Find(k)
    \/ GetLoad
SpecAnyKey == Init /\ [][NextAnyKey]_vars

\* ------------------------------------------------- vocabulary of the claims
ElementsOf(tbl) ==
    LET c == Collect(tbl, 1) IN {c[i] : i \in 1..Len(c)}
KeyStored(tbl, k) == \E x \in ElementsOf(tbl) : x.key = k
UniqueKeys(tbl) ==
    LET c == Collect(tbl, 1)
    IN  \A i, j \in 1..Len(c) : i # j => c[i].key # c[j].key
Full(tbl) == \A i \in 1..Len(tbl) : tbl[i] # None
Probing == collision_type \in {"Linear", "Double"}
PopFromEmpty == "IndexError: pop from empty list"
Occurrences(seq, x) == Cardinality({i \in 1..Len(seq) : seq[i] = x})
SameElements(s, t) ==
    /\ Len(s) = Len(t)
    /\ \A i \in 1..Len(s) : Occurrences(s, s[i]) = Occurrences(t, s[i])
Took == [i \in 1..Len(rebuilds) |-> rebuilds[i].took]

\* C1: in every table no two stored elements have the same key, and an insert
\* whose key is already stored changes neither total_elements nor the table
\* (so the value stored for the key stays the first one written).
C1_UniqueKeys ==
    [][/\ UniqueKeys(table')
       /\ (call'.name = "insert" /\ KeyStored(table, call'.key))
            => (total_elements' = total_elements /\ table' = table)]_vars

\* C2: an element that an insert has stored stays stored over every later
\* call, and every find of its key returns True (set) or its value (map).
C2_RoundTrip ==
    [][/\ ElementsOf(table) \subseteq ElementsOf(table')
       /\ call'.name = "find" =>
            \A x \in ElementsOf(table') :
                x.key = call'.key => ret' = ItemResult(x)]_vars

\* C3: after an insert call on a DynamicHashSet or DynamicHashMap that did
\* not find the size list exhausted, the call has returned and
\* total_elements / table_size < 0.5.
C3_LoadBound ==
    (IsDynamic(cls) /\ call.name = "insert" /\ exc # PopFromEmpty)
        => (exc = "ok" /\ 2 * total_elements < table_size)

\* C4: every rehash an insert on a DynamicHashSet or DynamicHashMap triggers
\* runs to completion, and the elements stored right after it are the
\* elements stored right before it, each as often as before.
C4_RebuildKeepsElements ==
    (IsDynamic(cls) /\ call.name = "insert")
        => \A i \in 1..Len(rebuilds) :
               /\ rebuilds[i].done
               /\ SameElements(rebuilds[i].before, rebuilds[i].after)

C6_RebuildIffStoredAndLoaded ==
    (IsDynamic(cls) /\ call.name = "insert")
        => /\ rebuilds # <<>> => (mid.stored /\ GeHalf(mid.load))
           /\ (mid.stored /\ GeHalf(mid.load))
                => (rebuilds # <<>> \/ exc = PopFromEmpty)

\* C7: an insert on a DynamicHashSet or DynamicHashMap that stores an element,
\* leaves total_elements / table_size >= 0.5 and finds the size list empty
\* ends with an exception; and no such insert returns normally with
\* total_elements / table_size >= 0.5.
C7_NoOverloadedReturn ==
    [][(IsDynamic(cls) /\ call'.name = "insert")
         => /\ (mid'.stored /\ GeHalf(mid'.load) /\ prime_sizes = <<>>)
                => exc' # "ok"
            /\ exc' = "ok" => 2 * total_elements' < table_size']_vars

\* An insert stored an element, needed to grow, found the list empty and
\* raised.
C7_Witness ==
    /\ IsDynamic(cls)
    /\ call.name = "insert"
    /\ mid.stored
    /\ GeHalf(mid.load)
    /\ rebuilds = <<>>
    /\ exc = PopFromEmpty

\* C8: every rehash removes exactly the last element of prime_sizes, the
\* rehashes of one call taking the elements from the end backwards; the table
\* size right after the rehash has rebuilt the table is the size it took; and
\* a call that does not rehash (other than set_primes) leaves prime_sizes
\* alone.
C8_SizesTakenInOrder ==
    [][call'.name # "set_primes"
         => /\ Len(prime_sizes') = Len(prime_sizes) - Len(rebuilds')
            /\ prime_sizes' = SubSeq(prime_sizes, 1, Len(prime_sizes'))
            /\ \A i \in 1..Len(rebuilds') :
                  /\ Took'[i] = prime_sizes[Len(prime_sizes) + 1 - i]
                  /\ rebuilds'[i].built = rebuilds'[i].took]_vars

\* C9: an insert of a key that is not stored, on a HashSet or HashMap with
\* Linear or Double strategy and no None slot, returns normally and leaves
\* total_elements and the table unchanged.
C9_FullTableInsertIsSilent ==
    [][(/\ ~IsDynamic(cls)
        /\ Probing
        /\ Full(table)
        /\ call'.name = "insert"
        /\ ~KeyStored(table, call'.key))
         => /\ exc' = "ok"
            /\ total_elements' = total_elements
            /\ table' = table]_vars

\* An insert of a key that is not stored has just run on a full table of two
\* slots or more.
C9_Witness ==
    /\ ~IsDynamic(cls)
    /\ Probing
    /\ call.name = "insert"
    /\ exc = "ok"
    /\ table_size >= 2
    /\ Full(table)
    /\ ~KeyStored(table, call.key)

\* C10: every probing loop that find or insert runs on a Linear or Double
\* table examines at most table_size slots.
C10_ProbesBounded ==
    \A i \in 1..Len(loops) : loops[i].probes <= loops[i].size

\* The placement loop of an insert went through a whole Double table of two
\* slots or more.
C10_Witness ==
    /\ collision_type = "Double"
    /\ call.name = "insert"
    /\ \E i \in 1..Len(loops) :
          /\ loops[i].loop = "insert"
          /\ loops[i].size >= 2
          /\ loops[i].probes = loops[i].size

\* C11: find(key) returns, without raising, on a HashMap or DynamicHashMap the
\* value stored with the key when the key is stored and None (not a bool)
\* when it is not, and on a HashSet or DynamicHashSet True when the key is
\* stored and False when it is not, for every strategy.
C11_FindContract ==
    call.name = "find" =>
        /\ exc = "ok"
        /\ IF IsMap(cls)
           THEN IF KeyStored(table, call.key)
                THEN /\ ret.kind = "value"
                     /\ \E x \in ElementsOf(table) :
                           x.key = call.key /\ ret.v = x.val
                ELSE ret.kind = "None" /\ ret.kind # "bool"
           ELSE IF KeyStored(table, call.key)
                THEN ret = RetTrue
                ELSE ret = RetFalse

\* C12 as stated: in every state of every table 0 <= total_elements <=
\* table_size, and get_load() returns total_elements / table_size, a ratio
\* in [0, 1].
C12_LoadInUnitRange ==
    /\ 0 <= total_elements
    /\ total_elements <= table_size
    /\ call.name = "get_load" =>
          /\ ret = RetFloat(total_elements, table_size)
          /\ 0 <= ret.v
          /\ ret.v <= ret.d

\* C12 as amended: in every state of every table 0 <= total_elements, and
\* get_load() returns total_elements / table_size, a ratio that is >= 0; on a
\* Linear or Double table total_elements <= table_size and the ratio is in
\* [0, 1] (a Chain table holds any number of elements per slot).
C12_LoadInUnitRangeProbing ==
    /\ 0 <= total_elements
    /\ Probing => total_elements <= table_size
    /\ call.name = "get_load" =>
          /\ ret.kind = "float"
          /\ ret.v = total_elements
          /\ ret.d = table_size
          /\ 0 <= ret.v
          /\ Probing => ret.v <= ret.d

\* get_load has just returned 1 on a full Linear or Double table of two slots
\* or more.
C12_Witness ==
    /\ Probing
    /\ call.name = "get_load"
    /\ table_size >= 2
    /\ ret.v = ret.d
    /\ Full(table)

IsLetter(char) ==
    \/ (ord_a <= char /\ char <= ord_a + 25)
    \/ (ord_A <= char /\ char <= ord_A + 25)
LetterKey(key) == \A i \in 1..Len(key) : IsLetter(key[i])

\* C13: insert or find called with a key that holds a character other than a
\* letter ends with an InvalidKey error and leaves total_elements and the
\* table unchanged.
C13_InvalidKeyRejected ==
    [][(call'.name \in {"insert", "find"} /\ ~LetterKey(call'.key))
         => /\ exc' = "InvalidKey"
            /\ total_elements' = total_elements
            /\ table' = table]_vars

\* value(char): 'a'..'z' are 0..25 and 'A'..'Z' are 26..51.
LetterValue(char) ==
    IF char \in ord_a..(ord_a + 25) THEN char - ord_a
    ELSE IF char \in ord_A..(ord_A + 25) THEN 26 + (char - ord_A)
    ELSE -1

RECURSIVE Power(_, _)
Power(b, e) == IF e = 0 THEN 1 ELSE b * Power(b, e - 1)

\* The sum over the positions i of key, the first one counted as i = 0, of
\* value(key[i]) * zz^i.
RECURSIVE PolySum(_, _, _)
PolySum(key, zz, n) ==
    IF n = 0 THEN 0
    ELSE PolySum(key, zz, n - 1) + LetterValue(key[n]) * Power(zz, n - 1)

\* C14: for every key of letters, every z and every table_size >= 1,
\* get_slot(key) is (the sum over i of value(key[i]) * z^i) mod table_size,
\* the first character counted as i = 0, and lies in 0..table_size-1.
C14_SlotIsPolynomial ==
    call.name = "get_slot" =>
        /\ ret = RetVal(PolySum(call.key, z, Len(call.key)) % table_size)
        /\ 0 <= ret.v
        /\ ret.v <= table_size - 1

\* get_slot has returned a slot other than 0 for a key of two different
\* characters whose sum is larger than the table, with z >= 2.
C14_Witness ==
    /\ call.name = "get_slot"
    /\ Len(call.key) >= 2
    /\ call.key[1] # call.key[2]
    /\ z >= 2
    /\ table_size >= 3
    /\ PolySum(call.key, z, Len(call.key)) > table_size
    /\ ret.v # 0

\* C15: on a Double table every probing loop of an insert or find of a key
\* advances by the step c2 - (A mod c2), A the sum over i of
\* value(key[i]) * z2^i without reduction; the step lies in 1..c2; and the
\* loop of insert and the loop of find advance by the same step.
C15_DoubleStep ==
    (collision_type = "Double" /\ call.name \in {"insert", "find"}) =>
        LET A == PolySum(call.key, z2, Len(call.key))
        IN  /\ \A i \in 1..Len(loops) :
                  /\ loops[i].step = c2 - (A % c2)
                  /\ 1 <= loops[i].step
                  /\ loops[i].step <= c2
            /\ \A i, j \in 1..Len(loops) : loops[i].step = loops[j].step

\* An insert of a key of two characters has run find's loop and its own with
\* a step that is neither 1 nor c2.
C15_Witness ==
    /\ collision_type = "Double"
    /\ call.name = "insert"
    /\ Len(call.key) >= 2
    /\ z2 >= 2
    /\ Len(loops) = 2
    /\ loops[1].loop = "find"
    /\ loops[2].loop = "insert"
    /\ loops[2].step > 1
    /\ loops[2].step < c2

\* C16: on a Double table whose table_size is prime and whose c2 is in
\* 1..table_size-1, an insert of a key that is not stored, made while some
\* slot is None, stores the element and adds one to total_elements (for a
\* DynamicHashSet or DynamicHashMap: HashTable.insert does, before any
\* rehash).
C16_DoublePrimeStores ==
    [][(/\ collision_type = "Double"
        /\ IsPrime(table_size)
        /\ 1 <= c2
        /\ c2 < table_size
        /\ call'.name = "insert"
        /\ ~KeyStored(table, call'.key)
        /\ ~Full(table))
         => /\ mid'.stored
            /\ ~IsDynamic(cls) =>
                  /\ exc' = "ok"
                  /\ total_elements' = total_elements + 1
                  /\ KeyStored(table', call'.key)
                  /\ \E i \in 1..Len(table) :
                        /\ table[i] = None
                        /\ table'[i] = <<Element(call'.key, call'.val)>>
                        /\ \A j \in 1..Len(table) : j # i => table'[j] = table[j]]_vars

\* An insert on a Double table of prime size, with 2 <= c2 < table_size, has
\* stored an element whose key was not stored, after probing two slots or
\* more with a step of 2 or more.
C16_Witness ==
    /\ collision_type = "Double"
    /\ IsPrime(table_size)
    /\ 2 <= c2
    /\ c2 < table_size
    /\ call.name = "insert"
    /\ mid.stored
    /\ LET c == Collect(table, 1)
       IN  Cardinality({i \in 1..Len(c) : c[i].key = call.key}) = 1
    /\ \E i \in 1..Len(loops) :
          /\ loops[i].loop = "insert"
          /\ loops[i].size = table_size
          /\ loops[i].probes >= 2
          /\ loops[i].step >= 2

\* C17: when an insert on a DynamicHashSet with Chain or Linear strategy has
\* rehashed more than once (a rehash nested in the reinsertion of another)
\* and returns, every key stored before the call and the inserted key are
\* each stored exactly once, total_elements is their number and
\* total_elements / table_size < 0.5.
C17_NestedRebuildKeepsKeys ==
    [][(/\ cls = "DynamicHashSet"
        /\ collision_type \in {"Chain", "Linear"}
        /\ call'.name = "insert"
        /\ Len(rebuilds') >= 2
        /\ exc' = "ok")
         => LET keys == {x.key : x \in ElementsOf(table)} \cup {call'.key}
                c == Collect(table', 1)
            IN  /\ \A k \in keys :
                      Cardinality({i \in 1..Len(c) : c[i].key = k}) = 1
                /\ total_elements' = Cardinality(keys)
                /\ 2 * total_elements' < table_size']_vars

\* C18: in every state of every table, also one left by a call that raised,
\* total_elements is the number of elements held in the slots: the sum of
\* the lengths of the lists for Chain, the number of slots that are not None
\* for Linear and Double.
C18_CountIsHeld ==
    total_elements =
        IF collision_type = "Chain"
        THEN Len(Collect(table, 1))
        ELSE Cardinality({i \in 1..Len(table) : table[i] # None})

\* The probe sequence of key, from slot idx on, reaches slot target after
\* slots that are all occupied (not None); n counts the slots passed.
RECURSIVE PathOccupied(_, _, _, _, _)
PathOccupied(tbl, step, idx, target, n) ==
    IF idx = target THEN TRUE
    ELSE IF tbl[idx + 1] = None \/ n >= Len(tbl) THEN FALSE
    ELSE PathOccupied(tbl, step, (idx + step) % Len(tbl), target, n + 1)

ProbeStep(key) ==
    IF collision_type = "Linear" THEN 1 ELSE double_step(Self, key)

\* Every element of a Linear or Double table is held in a slot that the
\* probe sequence of its key reaches over occupied slots only.
ProbePathsOccupied ==
    Probing =>
        \A i \in 1..Len(table) :
            table[i] # None =>
                PathOccupied(table, ProbeStep(table[i][1].key),
                             get_slot(Self, table[i][1].key), i - 1, 0)

\* C19: in every state of a Linear or Double table, every slot on the probe
\* sequence of a stored key, from get_slot(key) up to the slot that holds
\* the element, is occupied; and find never reports a stored key as absent.
C19_ProbePathOccupied ==
    /\ ProbePathsOccupied
    /\ (Probing /\ call.name = "find" /\ KeyStored(table, call.key))
          => ret # MissResult(cls)
\* C20: rehash() called on a HashSet or HashMap of any strategy, with a size
\* to take, takes the last size of the list and sets table_size to it; the
\* table then holds exactly the elements it held before the call, and
\* total_elements is their number, whatever the size taken.
C20_StaticRehashKeepsEntries ==
    [][(call'.name = "rehash" /\ prime_sizes # <<>>) =>
          /\ prime_sizes' = SubSeq(prime_sizes, 1, Len(prime_sizes) - 1)
          /\ table_size' = prime_sizes[Len(prime_sizes)]
          /\ SameElements(Collect(table, 1), Collect(table', 1))
          /\ total_elements' = Len(Collect(table, 1))]_vars
\* The slots of the table that the step changed.
ChangedSlots ==
    {i \in 1..Len(table) : i > Len(table') \/ table'[i] # table[i]}

\* The step was a rebuild: a rehash took a size from prime_sizes.
PerformsRebuild == rebuilds' # <<>>

\* C21: find and get_load leave total_elements, table_size, the slots, z, z2,
\* c2 and prime_sizes unchanged; an insert that performs no rebuild leaves
\* table_size, collision_type, z, z2, c2 and prime_sizes unchanged and
\* changes at most one slot; table_size changes only in a step that performs
\* a rebuild, to the size the rebuild built the table with.
C21_FrameEffects ==
    [][/\ call'.name \in {"find", "get_load"} =>
             UNCHANGED <<total_elements, table_size, table, z, z2, c2,
                         prime_sizes>>
       /\ (call'.name = "insert" /\ ~PerformsRebuild) =>
             /\ UNCHANGED <<table_size, collision_type, z, z2, c2,
                            prime_sizes>>
             /\ Len(table') = Len(table)
             /\ Cardinality(ChangedSlots) <= 1
       /\ table_size' # table_size =>
             /\ call'.name \in {"insert", "rehash"}
             /\ PerformsRebuild
             /\ \E i \in 1..Len(rebuilds') :
                    rebuilds'[i].built = table_size']_vars

\* An insert of a DynamicHashSet or DynamicHashMap that stored its element
\* and performed no rebuild.
C21_Witness ==
    /\ IsDynamic(cls)
    /\ call.name = "insert"
    /\ exc = "ok"
    /\ rebuilds = <<>>
    /\ mid.stored
    /\ total_elements > 1

====
